---- MODULE Spec2Model ----
(***************************************************************************)
(* Trip Planner Bot (raffiebr/tavily-itinerary-bot): the session store,    *)
(* the UserSession vote ledger, the selection helpers and the Telegram     *)
(* handlers of src/src/bot.py, as a state machine.                         *)
(*                                                                         *)
(* Python values are modelled as follows.                                  *)
(*   dict      a sequence of entries [k |-> key, v |-> value] in insertion *)
(*             order (Python dicts iterate in insertion order, and         *)
(*             sorted() is stable, so the order is observable)             *)
(*   set       a set                                                       *)
(*   list      a sequence                                                  *)
(*   Optional  <<>> for None, <<x>> for a value x                          *)
(*   tuple     a sequence                                                  *)
(*   Activity  [id, name]: the other fields are display text only          *)
(***************************************************************************)
EXTENDS Integers, Sequences, FiniteSets, TLC

VARIABLES
    sessions,   \* storage._sessions: chat_id -> UserSession
    last,       \* history: the operation handled last, its inputs and results
    lastOp,     \* history: the last ledger operation per <<kind, item, voter>>
    nOps        \* history: how many bounded operations have been done

vars == <<sessions, last, lastOp, nOps>>

----------------------------------------------------------------------------
(* Bounds of the model *)

MaxCand == 4        \* longest candidate list of a round
MaxOps == 3         \* ledger operations explored by SpecLedger
MaxToggles == 1     \* vote taps that change the ledger, per planning round

(* Program constants *)

DEFAULT_SELECTION_COUNT == 3
SYSTEM_USER_ID == 0

START_DATE == "17 December 2025"
END_DATE == "20 December 2025"

----------------------------------------------------------------------------
(* Universe of inputs *)

Chats == {1, 2}
Users == {1, 2}                 \* Telegram user ids of the chat's members
Kinds == {"activity", "food"}

Min(a, b) == IF a <= b THEN a ELSE b

\* f"{idx:03d}" for the indexes the model uses
Pad3(n) == <<"001", "002", "003", "004", "005", "006", "007", "008", "009">>[n]

\* The item ids votes are cast on: two ids every non-trivial list has, and one
\* that only the longer lists have
ItemIds == {"001", "002", "003"}

\* The Activity created from line idx of an extraction
MkActivity(idx) == [id |-> Pad3(idx), name |-> <<"name", idx>>]

\* The candidate list with ids 001..n
MkList(n) == [i \in 1..n |-> MkActivity(i)]

CandLists == {MkList(n) : n \in 0..MaxCand}

----------------------------------------------------------------------------
(* BotState *)

IDLE == "idle"
SELECTING_ACTIVITIES == "selecting_activities"
SELECTING_FOOD == "selecting_food"
SELECTING_DAYS == "selecting_days"
WAITING_FOR_HOTEL == "waiting_for_hotel"
CONFIRMING_HOTEL == "confirming_hotel"
GENERATING == "generating"
REVIEWING_ITINERARY == "reviewing_itinerary"

BotState == {IDLE, SELECTING_ACTIVITIES, SELECTING_FOOD, SELECTING_DAYS,
             WAITING_FOR_HOTEL, CONFIRMING_HOTEL, GENERATING,
             REVIEWING_ITINERARY}

----------------------------------------------------------------------------
(* dict *)

DictKeys(d) == {d[i].k : i \in DOMAIN d}

DictIndex(d, key) == CHOOSE i \in DOMAIN d : d[i].k = key

\* d.get(key, default)
DictGet(d, key, default) ==
    IF key \in DictKeys(d) THEN d[DictIndex(d, key)].v ELSE default

\* del d[key]
DictDel(d, key) ==
    LET i == DictIndex(d, key)
    IN SubSeq(d, 1, i - 1) \o SubSeq(d, i + 1, Len(d))

\* d[key] = value
DictSet(d, key, value) ==
    IF key \in DictKeys(d)
    THEN [d EXCEPT ![DictIndex(d, key)].v = value]
    ELSE Append(d, [k |-> key, v |-> value])

----------------------------------------------------------------------------
(* UserSession *)

UserSession(chat_id) ==
    [chat_id |-> chat_id,
     state |-> IDLE,
     activities |-> <<>>,
     eateries |-> <<>>,
     selected_activities |-> <<>>,
     selected_eateries |-> <<>>,
     hotel |-> <<>>,
     num_days |-> 0,
     start_date |-> "",
     end_date |-> "",
     current_itinerary |-> ""]

add_vote_no_set(s, item_id, user_id) ==
    [s EXCEPT !.selected_activities = DictSet(@, item_id, {user_id})]

add_activity_vote(s, item_id, user_id) ==
    LET d0 == s.selected_activities
        d1 == IF item_id \notin DictKeys(d0) THEN DictSet(d0, item_id, {}) ELSE d0
        d2 == DictSet(d1, item_id, DictGet(d1, item_id, {}) \cup {user_id})
    IN [s EXCEPT !.selected_activities = d2]

remove_vote_keep_empty(s, item_id, user_id) ==
    LET d0 == s.selected_activities
    IN IF item_id \in DictKeys(d0)
       THEN [s EXCEPT !.selected_activities =
                        DictSet(d0, item_id, DictGet(d0, item_id, {}) \ {user_id})]
       ELSE s

remove_activity_vote(s, item_id, user_id) ==
    LET d0 == s.selected_activities
    IN IF item_id \in DictKeys(d0)
       THEN LET d1 == DictSet(d0, item_id, DictGet(d0, item_id, {}) \ {user_id})
            IN [s EXCEPT !.selected_activities =
                             IF DictGet(d1, item_id, {}) = {}
                             THEN DictDel(d1, item_id) ELSE d1]
       ELSE s

has_activity_vote(s, item_id, user_id) ==
    /\ item_id \in DictKeys(s.selected_activities)
    /\ user_id \in DictGet(s.selected_activities, item_id, {})

count_entries(s, item_id) ==
    Len(s.selected_activities)

get_activity_vote_count(s, item_id) ==
    Cardinality(DictGet(s.selected_activities, item_id, {}))

add_eatery_vote(s, item_id, user_id) ==
    LET d0 == s.selected_eateries
        d1 == IF item_id \notin DictKeys(d0) THEN DictSet(d0, item_id, {}) ELSE d0
        d2 == DictSet(d1, item_id, DictGet(d1, item_id, {}) \cup {user_id})
    IN [s EXCEPT !.selected_eateries = d2]

remove_eatery_vote(s, item_id, user_id) ==
    LET d0 == s.selected_eateries
    IN IF item_id \in DictKeys(d0)
       THEN LET d1 == DictSet(d0, item_id, DictGet(d0, item_id, {}) \ {user_id})
            IN [s EXCEPT !.selected_eateries =
                             IF DictGet(d1, item_id, {}) = {}
                             THEN DictDel(d1, item_id) ELSE d1]
       ELSE s

has_eatery_vote(s, item_id, user_id) ==
    /\ item_id \in DictKeys(s.selected_eateries)
    /\ user_id \in DictGet(s.selected_eateries, item_id, {})

get_eatery_vote_count(s, item_id) ==
    Cardinality(DictGet(s.selected_eateries, item_id, {}))

\* sorted(pairs, key=lambda x: x[1], reverse=True): a stable sort, so pairs
\* with equal counts keep the order they have in `pairs`
RECURSIVE SortedByCountDesc(_)
SortedByCountDesc(pairs) ==
    IF pairs = <<>> THEN <<>>
    ELSE LET n == Len(pairs)
             x == pairs[n]
             front == SortedByCountDesc(SubSeq(pairs, 1, n - 1))
             \* x goes behind every pair whose count is at least its own
             p == Cardinality({i \in DOMAIN front : front[i][2] >= x[2]})
         IN SubSeq(front, 1, p) \o <<x>> \o SubSeq(front, p + 1, Len(front))

\* [(k, len(v)) for k, v in d.items()]
VotePairs(d) == [i \in DOMAIN d |-> <<d[i].k, Cardinality(d[i].v)>>]

unsorted_by_votes(s) == VotePairs(s.selected_activities)

get_activities_by_votes(s) == SortedByCountDesc(VotePairs(s.selected_activities))

get_eateries_by_votes(s) == SortedByCountDesc(VotePairs(s.selected_eateries))

get_total_activity_votes(s) == Len(s.selected_activities)

get_total_eatery_votes(s) == Len(s.selected_eateries)

----------------------------------------------------------------------------
(* services.py: selection helpers *)

\* for item in items[:count]: session.add_..._vote(item.id, system_user_id)
RECURSIVE AddDefaultVotes(_, _, _, _)
AddDefaultVotes(s, selection_type, items, system_user_id) ==
    IF items = <<>> THEN s
    ELSE LET s1 == IF selection_type = "activity"
                   THEN add_activity_vote(s, Head(items).id, system_user_id)
                   ELSE add_eatery_vote(s, Head(items).id, system_user_id)
         IN AddDefaultVotes(s1, selection_type, Tail(items), system_user_id)

default_always(s, selection_type, system_user_id) ==
    LET items == IF selection_type = "activity" THEN s.activities ELSE s.eateries
        count == Min(DEFAULT_SELECTION_COUNT, Len(items))
        chosen == SubSeq(items, 1, count)
    IN [session |-> AddDefaultVotes(s, selection_type, chosen, system_user_id),
        ret |-> <<count, [i \in 1..count |-> chosen[i].name]>>]

default_all_items(s, selection_type, system_user_id) ==
    LET items == IF selection_type = "activity" THEN s.activities ELSE s.eateries
        selected == IF selection_type = "activity"
                    THEN s.selected_activities ELSE s.selected_eateries
    IN IF selected # <<>>
       THEN [session |-> s, ret |-> <<0, <<>>>>]
       ELSE [session |-> AddDefaultVotes(s, selection_type, items, system_user_id),
             ret |-> <<Len(items), [i \in 1..Len(items) |-> items[i].name]>>]

\* Returns the session after the call and the returned tuple
\* (count, default_names).
apply_default_selections(s, selection_type, system_user_id) ==
    LET items == IF selection_type = "activity" THEN s.activities ELSE s.eateries
        selected == IF selection_type = "activity"
                    THEN s.selected_activities ELSE s.selected_eateries
    IN IF selected # <<>>
       THEN [session |-> s, ret |-> <<0, <<>>>>]
       ELSE LET count == Min(DEFAULT_SELECTION_COUNT, Len(items))
                chosen == SubSeq(items, 1, count)
            IN [session |-> AddDefaultVotes(s, selection_type, chosen, system_user_id),
                ret |-> <<count, [i \in 1..count |-> chosen[i].name]>>]

\* items_by_id = {item.id: item for item in items}: the last item with the id
ItemById(items, id) ==
    items[CHOOSE i \in DOMAIN items :
            /\ items[i].id = id
            /\ \A j \in DOMAIN items : items[j].id = id => j <= i]

RECURSIVE KeepKnown(_, _)
KeepKnown(votes_by_id, items) ==
    IF votes_by_id = <<>> THEN <<>>
    ELSE LET item_id == Head(votes_by_id)[1]
             rest == KeepKnown(Tail(votes_by_id), items)
         IN IF \E i \in DOMAIN items : items[i].id = item_id
            THEN <<ItemById(items, item_id)>> \o rest
            ELSE rest

\* The voted candidates in presentation order, whatever their rank
prioritized_in_list_order(s, selection_type) ==
    LET items == IF selection_type = "activity" THEN s.activities ELSE s.eateries
        ranked == IF selection_type = "activity" THEN get_activities_by_votes(s)
                  ELSE get_eateries_by_votes(s)
    IN SelectSeq(items, LAMBDA it : \E i \in DOMAIN ranked : ranked[i][1] = it.id)

get_prioritized_selections(s, selection_type) ==
    IF selection_type = "activity"
    THEN KeepKnown(get_activities_by_votes(s), s.activities)
    ELSE KeepKnown(get_eateries_by_votes(s), s.eateries)

----------------------------------------------------------------------------
(* config.py *)

get_activity_recommendation_count(num_days) ==
    IF num_days <= 2 THEN num_days * 2 + 2 ELSE Min(num_days * 2, 10)

get_food_recommendation_count(num_days) == Min(num_days * 2 + 2, 10)

----------------------------------------------------------------------------
(* The external collaborators, as inputs of an event *)

\* What the Search Provider and the extraction produce for one search: an
\* exception, or the list of candidates (possibly empty)
ProviderOutcomes ==
    {[exc |-> e, value |-> <<>>] : e \in {"TavilySearchError", "LLMError"}}
    \cup {[exc |-> "", value |-> MkList(n)] : n \in {0, MaxCand}}

NoProvider == [exc |-> "TavilySearchError", value |-> <<>>]

\* What the Text Generator produces for a generation: an exception or a text
Itineraries == {"itinerary A", "itinerary B"}
GeneratorOutcomes == {"error"} \cup Itineraries

\* What the Text Generator answers to the hotel prompt
HotelAnswers ==
    {[kind |-> "raise"],
     [kind |-> "text"],
     [kind |-> "json_other"],
     [kind |-> "json", obj |-> <<>>],
     [kind |-> "json", obj |-> <<[k |-> "name", v |-> "Bintan Lagoon Resort"],
                                 [k |-> "area", v |-> "Lagoi"],
                                 [k |-> "confidence", v |-> "high"]>>]}

HotelTexts == {"bintan lagoon"}

\* str.title() on the texts of the model
Title(text) == IF text = "bintan lagoon" THEN "Bintan Lagoon" ELSE text

\* The Messaging Transport calls of a handler, by kind; an event is delivered
\* with the set of kinds whose calls raise TelegramError
CallSites == {"answer", "edit", "status", "prompt", "delete", "send", "notice"}

FailSets == {{}} \cup {{x} : x \in CallSites} \cup {{"delete", "send"}, CallSites}

\* Callback payloads, as data.split("_").  The day counts and hotel answers
\* delivered: all of them where the flow ends at the activity search, one of
\* each kind where it goes on
DayTokens == {"1", "3", "5", "6", "x"}

DayTokensOf(build) == IF build = "flow" THEN {"3", "x"} ELSE DayTokens

HotelAnswersOf(build) ==
    IF build = "src" THEN HotelAnswers
    ELSE {a \in HotelAnswers : a.kind = "json" /\ a.obj # <<>>}

\* int(token)
IsInt(tok) == tok \in {"0", "1", "2", "3", "4", "5", "6", "7", "8", "9"}
IntOf(tok) ==
    CASE tok = "0" -> 0 [] tok = "1" -> 1 [] tok = "2" -> 2 [] tok = "3" -> 3
      [] tok = "4" -> 4 [] tok = "5" -> 5 [] tok = "6" -> 6 [] tok = "7" -> 7
      [] tok = "8" -> 8 [] tok = "9" -> 9

VoteIds == {"001", "002", "009"}

----------------------------------------------------------------------------
(* services.py: search and generation *)

\* search_activities() and search_food() take no parameter: a call that passes
\* max_results raises TypeError before anything is searched.
search_activities(kwargs, provider) ==
    IF kwargs # {} THEN [exc |-> "TypeError", value |-> <<>>]
    ELSE provider

search_food(kwargs, provider) ==
    IF kwargs # {} THEN [exc |-> "TypeError", value |-> <<>>]
    ELSE provider

\* The search the handlers call, search_...(max_results=n): at most n candidates
SearchWithMaxResults(max_results, provider) ==
    IF provider.exc # "" THEN provider
    ELSE [exc |-> "",
          value |-> SubSeq(provider.value, 1,
                           Min(Len(provider.value),
                               IF max_results < 0 THEN 0 ELSE max_results))]

\* build "src": the search functions of services.py; "flow": the functions of
\* the signature bot.py calls
CallSearch(build, selection_type, max_results, provider) ==
    IF build = "src"
    THEN IF selection_type = "activity"
         THEN search_activities({"max_results"}, provider)
         ELSE search_food({"max_results"}, provider)
    ELSE SearchWithMaxResults(max_results, provider)

Fallback(user_input) ==
    [raw_input |-> user_input, name |-> Title(user_input), area |-> "Unknown",
     confidence |-> "low"]

\* A parse that answers a failure with a guessed hotel
parse_hotel_guesses(user_input, llm) ==
    IF llm.kind = "json"
    THEN [raw_input |-> user_input,
          name |-> DictGet(llm.obj, "name", Title(user_input)),
          area |-> DictGet(llm.obj, "area", "Unknown"),
          confidence |-> DictGet(llm.obj, "confidence", "low")]
    ELSE [raw_input |-> user_input, name |-> "Bintan Lagoon Resort",
          area |-> "Lagoi", confidence |-> "medium"]

\* parse_hotel never raises: every failure gives the low-confidence echo
parse_hotel(user_input, llm) ==
    IF llm.kind = "json"
    THEN [raw_input |-> user_input,
          name |-> DictGet(llm.obj, "name", Title(user_input)),
          area |-> DictGet(llm.obj, "area", "Unknown"),
          confidence |-> DictGet(llm.obj, "confidence", "low")]
    ELSE Fallback(user_input)

\* generate_itinerary: the text, or LLMError
generate_itinerary(args, llm) ==
    IF llm = "error" THEN [exc |-> "LLMError", value |-> ""]
    ELSE [exc |-> "", value |-> llm]

----------------------------------------------------------------------------
(* The ledger of one UserSession, driven through its methods *)

LedgerKeys == Kinds \X ItemIds \X (Users \cup {SYSTEM_USER_ID})

InitLedger ==
    /\ \E n \in 0..MaxCand :
          sessions = (1 :> [UserSession(1) EXCEPT !.activities = MkList(n),
                                                  !.eateries = MkList(MaxCand - n)])
    /\ last = [op |-> "init"]
    /\ lastOp = [x \in LedgerKeys |-> "none"]
    /\ nOps = 0

AddVote(kind, item, user) ==
    /\ nOps < MaxOps
    /\ sessions' = [sessions EXCEPT ![1] =
                      IF kind = "activity" THEN add_activity_vote(@, item, user)
                      ELSE add_eatery_vote(@, item, user)]
    /\ last' = [op |-> "add_vote",
                had |-> IF kind = "activity"
                        THEN has_activity_vote(sessions[1], item, user)
                        ELSE has_eatery_vote(sessions[1], item, user)]
    /\ lastOp' = [lastOp EXCEPT ![<<kind, item, user>>] = "add"]
    /\ nOps' = nOps + 1

RemoveVote(kind, item, user) ==
    /\ nOps < MaxOps
    /\ sessions' = [sessions EXCEPT ![1] =
                      IF kind = "activity" THEN remove_activity_vote(@, item, user)
                      ELSE remove_eatery_vote(@, item, user)]
    /\ last' = [op |-> "remove_vote",
                had |-> IF kind = "activity"
                        THEN has_activity_vote(sessions[1], item, user)
                        ELSE has_eatery_vote(sessions[1], item, user)]
    /\ lastOp' = [lastOp EXCEPT ![<<kind, item, user>>] = "remove"]
    /\ nOps' = nOps + 1

ApplyDefault(kind) ==
    /\ nOps < MaxOps
    /\ LET r == apply_default_selections(sessions[1], kind, SYSTEM_USER_ID)
           cast == {item \in ItemIds :
                      IF kind = "activity"
                      THEN /\ has_activity_vote(r.session, item, SYSTEM_USER_ID)
                           /\ ~has_activity_vote(sessions[1], item, SYSTEM_USER_ID)
                      ELSE /\ has_eatery_vote(r.session, item, SYSTEM_USER_ID)
                           /\ ~has_eatery_vote(sessions[1], item, SYSTEM_USER_ID)}
       IN /\ sessions' = [sessions EXCEPT ![1] = r.session]
          /\ last' = [op |-> "apply_default", kind |-> kind,
                      pre |-> sessions[1], ret |-> r.ret]
          /\ lastOp' = [x \in LedgerKeys |->
                          IF x[1] = kind /\ x[2] \in cast /\ x[3] = SYSTEM_USER_ID
                          THEN "add" ELSE lastOp[x]]
    /\ nOps' = nOps + 1

NextLedger ==
    \/ \E kind \in Kinds, item \in ItemIds, user \in Users : AddVote(kind, item, user)
    \/ \E kind \in Kinds, item \in ItemIds, user \in Users : RemoveVote(kind, item, user)
    \/ \E kind \in Kinds : ApplyDefault(kind)

SpecLedger == InitLedger /\ [][NextLedger]_vars

----------------------------------------------------------------------------
(* storage.py *)

\* get_session: creates and stores the session of an unknown chat
\* A store whose get_session hands out a new session every time
get_session_resets(store, chat_id) ==
    [c \in DOMAIN store \cup {chat_id} |->
        IF c = chat_id THEN UserSession(chat_id) ELSE store[c]]

\* A store whose clear_session forgets every chat
clear_all_sessions(store, chat_id) == << >>

get_session(store, chat_id) ==
    IF chat_id \notin DOMAIN store
    THEN [c \in DOMAIN store \cup {chat_id} |->
            IF c = chat_id THEN UserSession(chat_id) ELSE store[c]]
    ELSE store

save_session(store, session) ==
    [c \in DOMAIN store \cup {session.chat_id} |->
        IF c = session.chat_id THEN session ELSE store[c]]

clear_session(store, chat_id) ==
    IF chat_id \in DOMAIN store
    THEN [c \in DOMAIN store \ {chat_id} |-> store[c]]
    ELSE store

----------------------------------------------------------------------------
(* bot.py: the handlers.  A handler works on a record r:                   *)
(*   s         the session object it mutates                               *)
(*   trail     the values assigned to session.state, in order              *)
(*   exc       the exception that leaves the handler ("" for none)         *)
(*   failed    the transport calls made that raised                        *)
(*   search    outcome of the search made ("" when none was made)          *)
(*   hotelAnswer  Optional: the Text Generator's answer to the hotel prompt *)
(*   found     the candidates the search returned (<<>> when none)         *)
(*   gen       outcome of the generation made ("" when none was made)      *)
(*   genText   the text generate_itinerary returned ("" when none)         *)
(*   genArgs   Optional: what was handed to generate_itinerary             *)
(*   genFrom   Optional: the session when _start_itinerary_generation was  *)
(*             entered                                                     *)
(*   defaults  Optional: what apply_default_selections returned            *)

Res(s) ==
    [s |-> s, trail |-> <<>>, exc |-> "", failed |-> {}, search |-> "",
     found |-> <<>>, gen |-> "", genText |-> "", genArgs |-> <<>>,
     genFrom |-> <<>>, defaults |-> <<>>, hotelAnswer |-> <<>>]

\* session.state = st
SetState(r, st) == [r EXCEPT !.s.state = st, !.trail = Append(@, st)]

\* A transport call that raised: the exception leaves the handler
Raise(r, site) == [r EXCEPT !.failed = @ \cup {site}, !.exc = "TelegramError"]

\* A transport call that raised inside a try whose except does not re-raise
Swallow(r, site) == [r EXCEPT !.failed = @ \cup {site}]

\* await <call at site>, then `next`
Await(r, site, fails) == IF site \in fails THEN Raise(r, site) ELSE r

start_hotel_input(r, fails) ==
    Await(SetState(r, WAITING_FOR_HOTEL), "prompt", fails)

start_days_selection(r, fails) ==
    Await(SetState(r, SELECTING_DAYS), "prompt", fails)

\* An activity search whose failure opens the round with what it has
activity_search_opens_anyway(r, build, provider, fails) ==
    LET res == CallSearch(build, "activity",
                          get_activity_recommendation_count(r.s.num_days), provider)
    IN SetState([r EXCEPT !.s.activities = res.value,
                          !.search = IF res.exc # "" THEN res.exc
                                     ELSE IF res.value = <<>> THEN "empty" ELSE "ok"],
                SELECTING_ACTIVITIES)

start_activity_selection(r, build, provider, fails) ==
    LET activity_count == get_activity_recommendation_count(r.s.num_days)
    IN IF "status" \in fails THEN Raise(r, "status")
       ELSE LET res == CallSearch(build, "activity", activity_count, provider)
            IN IF res.exc # ""
               THEN Await([r EXCEPT !.search = res.exc], "notice", fails)
               ELSE IF res.value = <<>>
               THEN Await([r EXCEPT !.search = "empty"], "notice", fails)
               ELSE LET r1 == SetState([r EXCEPT !.s.activities = res.value,
                                                 !.search = "ok",
                                                 !.found = res.value],
                                       SELECTING_ACTIVITIES)
                    IN IF "prompt" \in fails
                       THEN Await(Swallow(r1, "prompt"), "notice", fails)
                       ELSE r1

start_food_selection(r, build, provider, fails) ==
    LET food_count == get_food_recommendation_count(r.s.num_days)
    IN IF "status" \in fails THEN Raise(r, "status")
       ELSE LET res == CallSearch(build, "food", food_count, provider)
            IN IF res.exc # ""
               THEN Await([r EXCEPT !.search = res.exc], "notice", fails)
               ELSE IF res.value = <<>>
               THEN Await([r EXCEPT !.search = "empty"], "notice", fails)
               ELSE LET r1 == SetState([r EXCEPT !.s.eateries = res.value,
                                                 !.search = "ok",
                                                 !.found = res.value],
                                       SELECTING_FOOD)
                    IN IF "prompt" \in fails
                       THEN Await(Swallow(r1, "prompt"), "notice", fails)
                       ELSE r1

\* A generation whose failure is reported without setting the step back
generation_no_rollback(r, llm, fails) ==
    LET r1 == SetState([r EXCEPT !.genFrom = <<r.s>>], GENERATING)
        res == generate_itinerary(<<>>, llm)
    IN IF "status" \in fails THEN Raise(r1, "status")
       ELSE IF res.exc # ""
       THEN Await([r1 EXCEPT !.gen = res.exc], "notice", fails)
       ELSE SetState([r1 EXCEPT !.s.current_itinerary = res.value, !.gen = "ok"],
                     REVIEWING_ITINERARY)

\* A generation whose failure also empties the vote ledgers
generation_rollback_clears_votes(r, llm, fails) ==
    LET r1 == SetState([r EXCEPT !.genFrom = <<r.s>>], GENERATING)
        res == generate_itinerary(<<>>, llm)
    IN IF "status" \in fails THEN Raise(r1, "status")
       ELSE IF res.exc # ""
       THEN SetState([r1 EXCEPT !.gen = res.exc, !.s.selected_activities = <<>>,
                                !.s.selected_eateries = <<>>], SELECTING_FOOD)
       ELSE SetState([r1 EXCEPT !.s.current_itinerary = res.value, !.gen = "ok"],
                     REVIEWING_ITINERARY)

start_itinerary_generation(r, llm, fails) ==
    LET r1 == SetState([r EXCEPT !.genFrom = <<r.s>>], GENERATING)
    IN IF "status" \in fails THEN Raise(r1, "status")
       ELSE LET args == [selected_activities |->
                            get_prioritized_selections(r1.s, "activity"),
                         selected_eateries |->
                            get_prioritized_selections(r1.s, "food"),
                         hotel |-> r1.s.hotel,
                         num_days |-> r1.s.num_days]
                r2 == [r1 EXCEPT !.genArgs = <<args>>]
                res == generate_itinerary(args, llm)
            IN IF res.exc # ""
               THEN \* except LLMError
                    Await(SetState([r2 EXCEPT !.gen = res.exc], SELECTING_FOOD),
                          "notice", fails)
               ELSE LET r3 == SetState([r2 EXCEPT !.s.current_itinerary = res.value,
                                                  !.gen = "ok",
                                                  !.genText = res.value],
                                       REVIEWING_ITINERARY)
                        r4 == IF "delete" \in fails THEN Swallow(r3, "delete") ELSE r3
                    IN IF "send" \in fails
                       THEN \* _send_itinerary raised: except Exception
                            Await(SetState(Swallow(r4, "send"), SELECTING_FOOD),
                                  "notice", fails)
                       ELSE r4

handle_hotel_input(r, text, llm, fails) ==
    IF "status" \in fails THEN Raise(r, "status")
    ELSE LET hotel_info == parse_hotel(text, llm)
             r1 == SetState([r EXCEPT !.s.hotel = <<hotel_info>>,
                                      !.hotelAnswer = <<llm>>], CONFIRMING_HOTEL)
         IN IF "prompt" \in fails
            THEN Await(Swallow(r1, "prompt"), "notice", fails)
            ELSE r1

\* if session.state != <expected>: await query.answer(..., show_alert=True); return
Reject(r, fails) == Await(r, "answer", fails)

HotelConfirmationBody(r, data, fails) ==
    IF "answer" \in fails THEN Raise(r, "answer")
    ELSE IF data = <<"htl", "yes">>
         THEN IF "edit" \in fails THEN Raise(r, "edit")
              ELSE start_days_selection(r, fails)
         ELSE Await(SetState([r EXCEPT !.s.hotel = <<>>], WAITING_FOR_HOTEL),
                    "edit", fails)

\* A confirmation whose "no" goes back without clearing the hotel
hotel_confirmation_keeps_hotel(r, data, fails) ==
    IF r.s.state # CONFIRMING_HOTEL THEN Reject(r, fails)
    ELSE IF "answer" \in fails THEN Raise(r, "answer")
    ELSE IF data = <<"htl", "yes">> THEN HotelConfirmationBody(r, data, fails)
    ELSE Await(SetState(r, WAITING_FOR_HOTEL), "edit", fails)

handle_hotel_confirmation(r, data, fails) ==
    IF r.s.state # CONFIRMING_HOTEL THEN Reject(r, fails)
    ELSE HotelConfirmationBody(r, data, fails)

DaysSelectionBody(r, data, build, provider, fails) ==
    IF "answer" \in fails THEN Raise(r, "answer")
    ELSE IF ~IsInt(data[2]) THEN [r EXCEPT !.exc = "ValueError"]
    ELSE LET r1 == [r EXCEPT !.s.num_days = IntOf(data[2])]
         IN IF "edit" \in fails THEN Raise(r1, "edit")
            ELSE start_activity_selection(r1, build, provider, fails)

days_selection_unguarded(r, data, build, provider, fails) ==
    DaysSelectionBody(r, data, build, provider, fails)

\* A day-count choice that starts the search without recording the count
days_selection_forgets_count(r, data, build, provider, fails) ==
    IF r.s.state # SELECTING_DAYS THEN Reject(r, fails)
    ELSE start_activity_selection(r, build, provider, fails)

handle_days_selection(r, data, build, provider, fails) ==
    IF r.s.state # SELECTING_DAYS THEN Reject(r, fails)
    ELSE DaysSelectionBody(r, data, build, provider, fails)

SelectionBody(r, data, selection_type, user_id, fails) ==
    LET action == data[1]
        item_id == data[3]
        s1 == IF action = "sel"
              THEN IF selection_type = "activity"
                   THEN add_activity_vote(r.s, item_id, user_id)
                   ELSE add_eatery_vote(r.s, item_id, user_id)
              ELSE IF selection_type = "activity"
                   THEN remove_activity_vote(r.s, item_id, user_id)
                   ELSE remove_eatery_vote(r.s, item_id, user_id)
        r1 == [r EXCEPT !.s = s1]
    IN IF "answer" \in fails THEN Raise(r1, "answer")
       ELSE IF "edit" \in fails THEN Swallow(r1, "edit") ELSE r1

ExpectedState(selection_type) ==
    IF selection_type = "activity" THEN SELECTING_ACTIVITIES ELSE SELECTING_FOOD

\* A toggle that is accepted in every step
selection_unguarded(r, data, selection_type, user_id, fails) ==
    SelectionBody(r, data, selection_type, user_id, fails)

selection_wrong_ledger(r, data, selection_type, user_id, fails) ==
    IF r.s.state # ExpectedState(selection_type) THEN Reject(r, fails)
    ELSE SelectionBody(r, data, "food", user_id, fails)

\* A toggle that is taken back when the transport fails
selection_undone_on_failure(r, data, selection_type, user_id, fails) ==
    IF r.s.state # ExpectedState(selection_type) THEN Reject(r, fails)
    ELSE IF fails \cap {"answer", "edit"} # {}
         THEN [SelectionBody(r, data, selection_type, user_id, fails)
                  EXCEPT !.s = r.s]
         ELSE SelectionBody(r, data, selection_type, user_id, fails)

handle_selection(r, data, selection_type, user_id, fails) ==
    IF r.s.state # ExpectedState(selection_type) THEN Reject(r, fails)
    ELSE SelectionBody(r, data, selection_type, user_id, fails)

\* if not session.selected_...: count, default_names = apply_default_selections(...)
WithDefaults(r, selection_type) ==
    IF Len(IF selection_type = "activity" THEN r.s.selected_activities
           ELSE r.s.selected_eateries) = 0
    THEN LET d == apply_default_selections(r.s, selection_type, SYSTEM_USER_ID)
         IN [r EXCEPT !.s = d.session, !.defaults = <<d.ret>>]
    ELSE r

handle_done_activities(r, build, provider, fails) ==
    IF r.s.state # SELECTING_ACTIVITIES THEN Reject(r, fails)
    ELSE IF "answer" \in fails THEN Raise(r, "answer")
    ELSE LET r1 == WithDefaults(r, "activity")
         IN IF "edit" \in fails THEN Raise(r1, "edit")
            ELSE start_food_selection(r1, build, provider, fails)

handle_done_food(r, llm, fails) ==
    IF r.s.state # SELECTING_FOOD THEN Reject(r, fails)
    ELSE IF "answer" \in fails THEN Raise(r, "answer")
    ELSE LET r1 == WithDefaults(r, "food")
         IN IF "edit" \in fails THEN Raise(r1, "edit")
            ELSE start_itinerary_generation(r1, llm, fails)

handle_itinerary_action(r, data, llm, fails) ==
    IF r.s.state # REVIEWING_ITINERARY THEN Reject(r, fails)
    ELSE IF "answer" \in fails THEN Raise(r, "answer")
    ELSE IF data = <<"itin", "regen">>
         THEN IF "edit" \in fails THEN Raise(r, "edit")
              ELSE start_itinerary_generation(r, llm, fails)
         ELSE LET r1 == SetState(r, IDLE)
                  r2 == IF "edit" \in fails THEN Swallow(r1, "edit") ELSE r1
              IN Await(r2, "prompt", fails)

\* data.startswith(prefix + "_"), on data.split("_")
StartsWith2(data, a, b) == Len(data) >= 3 /\ data[1] = a /\ data[2] = b

\* The routing of handle_callback, on the session object of the chat
Route(r, user_id, data, build, provider, llm, fails) ==
    IF data \in {<<"htl", "yes">>, <<"htl", "no">>}
    THEN handle_hotel_confirmation(r, data, fails)
    ELSE IF Len(data) >= 2 /\ data[1] = "days"
    THEN handle_days_selection(r, data, build, provider, fails)
    ELSE IF StartsWith2(data, "sel", "act") \/ StartsWith2(data, "des", "act")
    THEN handle_selection(r, data, "activity", user_id, fails)
    ELSE IF StartsWith2(data, "sel", "fod") \/ StartsWith2(data, "des", "fod")
    THEN handle_selection(r, data, "food", user_id, fails)
    ELSE IF data = <<"done", "act">>
    THEN handle_done_activities(r, build, provider, fails)
    ELSE IF data = <<"done", "fod">>
    THEN handle_done_food(r, llm, fails)
    ELSE IF data \in {<<"itin", "regen">>, <<"itin", "ok">>}
    THEN handle_itinerary_action(r, data, llm, fails)
    ELSE Await(r, "answer", fails)

\* handle_callback: the session is mutated in place, so what a handler did
\* before an exception stays; both except clauses only answer the query.
handle_callback(store, chat_id, user_id, data, build, provider, llm, fails) ==
    LET store1 == get_session(store, chat_id)
        r == Route(Res(store1[chat_id]), user_id, data, build, provider, llm, fails)
    IN [store |-> save_session(store1, r.s), r |-> r]

\* handle_text
handle_text(store, chat_id, text, llm, fails) ==
    LET store1 == get_session(store, chat_id)
        r0 == Res(store1[chat_id])
        r == IF r0.s.state = WAITING_FOR_HOTEL
             THEN handle_hotel_input(r0, text, llm, fails)
             ELSE Await(r0, "notice", fails)
    IN [store |-> save_session(store1, r.s), r |-> r]

\* plan: the restart command
plan(store, chat_id, fails) ==
    LET store1 == get_session(clear_session(store, chat_id), chat_id)
        s1 == [store1[chat_id] EXCEPT !.start_date = START_DATE,
                                      !.end_date = END_DATE]
        r == IF "status" \in fails THEN Raise(Res(s1), "status")
             ELSE start_hotel_input(Res(s1), fails)
    IN [store |-> save_session(store1, r.s), r |-> r]

----------------------------------------------------------------------------
(* The bot: one action per kind of inbound event.  `build` selects the     *)
(* search functions (see CallSearch), `c` is the chat of the event.        *)

\* The session get_session(chat_id) hands to a handler
SessionOf(store, c) == get_session(store, c)[c]

\* The outcomes of the transport calls a handler can make
FailsOn(sites) == {F \cap sites : F \in FailSets}

\* The fields of the chat's session that an event left with another value
Changed(pre, post) == {f \in DOMAIN pre : pre[f] # post[f]}

\* What is remembered of the event handled last: the event, the session it
\* found (pre, from), what the handler did (the fields of its record), the
\* arguments of the last generation that returned a text before the event
\* (underReview) and after it (reviewed)

Event(op, c, user, data, h) ==
    [op |-> op, chat |-> c, user |-> user, data |-> data,
     from |-> SessionOf(sessions, c).state,
     pre |-> SessionOf(sessions, c),
     changed |-> Changed(SessionOf(sessions, c), SessionOf(h.store, c)),
     trail |-> h.r.trail, exc |-> h.r.exc, failed |-> h.r.failed,
     hotelAnswer |-> h.r.hotelAnswer,
     search |-> h.r.search, found |-> h.r.found,
     gen |-> h.r.gen, genArgs |-> h.r.genArgs,
     genText |-> h.r.genText, genFrom |-> h.r.genFrom,
     underReview |-> last.reviewed,
     reviewed |-> IF h.r.gen = "ok" THEN h.r.genArgs
                  ELSE IF op = "plan" THEN <<>> ELSE last.reviewed,
     defaults |-> h.r.defaults]

Handled(op, c, user, data, h) ==
    /\ sessions' = h.store
    /\ last' = Event(op, c, user, data, h)
    /\ UNCHANGED lastOp

Init ==
    /\ sessions = <<>>
    /\ last = [op |-> "init", reviewed |-> <<>>]
    /\ lastOp = [x \in LedgerKeys |-> "none"]
    /\ nOps = 0

\* An event is handled in the current step or turned down by the handler's
\* first test; a handler that turns the event down reads nothing else of it,
\* so one representative of the unread inputs is delivered then.
InStep(c, st) == SessionOf(sessions, c).state = st

Pick(reads, all, one) == IF reads THEN all ELSE one

Plan(c) ==
    \E fails \in FailsOn({"status", "prompt"}) :
        /\ Handled("plan", c, 1, <<"plan">>, plan(sessions, c, fails))
        /\ nOps' = 0

Text(build, c) ==
    \E text \in HotelTexts,
       llm \in Pick(InStep(c, WAITING_FOR_HOTEL), HotelAnswersOf(build),
                    {[kind |-> "raise"]}),
       fails \in Pick(InStep(c, WAITING_FOR_HOTEL),
                      FailsOn({"status", "prompt", "notice"}), FailsOn({"notice"})) :
        /\ Handled("text", c, 1, <<text>>, handle_text(sessions, c, text, llm, fails))
        /\ UNCHANGED nOps

HotelConfirmation(build, c) ==
    \E data \in {<<"htl", "yes">>, <<"htl", "no">>},
       fails \in Pick(InStep(c, CONFIRMING_HOTEL),
                      FailsOn({"answer", "edit", "prompt"}), FailsOn({"answer"})) :
        /\ Handled("callback", c, 1, data,
                   handle_callback(sessions, c, 1, data, build, NoProvider,
                                   "error", fails))
        /\ UNCHANGED nOps

DaysSelection(build, c) ==
    \E tok \in Pick(InStep(c, SELECTING_DAYS), DayTokensOf(build), {"3"}),
       provider \in Pick(InStep(c, SELECTING_DAYS), ProviderOutcomes, {NoProvider}),
       fails \in Pick(InStep(c, SELECTING_DAYS),
                      FailsOn({"answer", "edit", "status", "prompt", "notice"}),
                      FailsOn({"answer"})) :
        /\ Handled("callback", c, 1, <<"days", tok>>,
                   handle_callback(sessions, c, 1, <<"days", tok>>, build,
                                   provider, "error", fails))
        /\ UNCHANGED nOps

Selection(build, c) ==
    \E kind \in {"act", "fod"} :
      LET reads == InStep(c, IF kind = "act" THEN SELECTING_ACTIVITIES
                             ELSE SELECTING_FOOD)
      IN \E user \in Pick(reads, Users, {1}),
            action \in Pick(reads, {"sel", "des"}, {"sel"}),
            id \in Pick(reads, VoteIds, {"002"}),
            fails \in Pick(reads, FailsOn({"answer", "edit"}), FailsOn({"answer"})) :
           LET data == <<action, kind, id>>
               h == handle_callback(sessions, c, user, data, build, NoProvider,
                                    "error", fails)
           IN /\ nOps < MaxToggles
              /\ Handled("callback", c, user, data, h)
              /\ nOps' = IF h.store = sessions THEN nOps ELSE nOps + 1

DoneActivities(build, c) ==
    \E provider \in Pick(InStep(c, SELECTING_ACTIVITIES), ProviderOutcomes,
                         {NoProvider}),
       fails \in Pick(InStep(c, SELECTING_ACTIVITIES),
                      FailsOn({"answer", "edit", "status", "prompt", "notice"}),
                      FailsOn({"answer"})) :
        /\ Handled("callback", c, 1, <<"done", "act">>,
                   handle_callback(sessions, c, 1, <<"done", "act">>, build,
                                   provider, "error", fails))
        /\ UNCHANGED nOps

DoneFood(build, c) ==
    \E llm \in Pick(InStep(c, SELECTING_FOOD), GeneratorOutcomes, {"error"}),
       fails \in Pick(InStep(c, SELECTING_FOOD),
                      FailsOn({"answer", "edit", "status", "delete", "send",
                               "notice"}),
                      FailsOn({"answer"})) :
        /\ Handled("callback", c, 1, <<"done", "fod">>,
                   handle_callback(sessions, c, 1, <<"done", "fod">>, build,
                                   NoProvider, llm, fails))
        /\ UNCHANGED nOps

ItineraryAction(build, c) ==
    \E data \in {<<"itin", "regen">>, <<"itin", "ok">>},
       llm \in Pick(InStep(c, REVIEWING_ITINERARY), GeneratorOutcomes, {"error"}),
       fails \in Pick(InStep(c, REVIEWING_ITINERARY),
                      FailsOn({"answer", "edit", "status", "delete", "send",
                               "notice", "prompt"}),
                      FailsOn({"answer"})) :
        /\ Handled("callback", c, 1, data,
                   handle_callback(sessions, c, 1, data, build, NoProvider, llm,
                                   fails))
        /\ UNCHANGED nOps

UnknownCallback(build, c) ==
    \E fails \in FailsOn({"answer"}) :
        /\ Handled("callback", c, 1, <<"bogus">>,
                   handle_callback(sessions, c, 1, <<"bogus">>, build, NoProvider,
                                   "error", fails))
        /\ UNCHANGED nOps

NextOf(build, c) ==
    \/ Plan(c)
    \/ Text(build, c)
    \/ HotelConfirmation(build, c)
    \/ DaysSelection(build, c)
    \/ Selection(build, c)
    \/ DoneActivities(build, c)
    \/ DoneFood(build, c)
    \/ ItineraryAction(build, c)
    \/ UnknownCallback(build, c)

\* The bot as the sources have it
Next == NextOf("src", 1)

Spec == Init /\ [][Next]_vars

\* The bot with search functions of the signature the handlers call
NextFlow == NextOf("flow", 1)

SpecFlow == Init /\ [][NextFlow]_vars

\* The same bot up to the opening of the activity round, with every day count
NextDays ==
    \/ Plan(1)
    \/ Text("days", 1)
    \/ HotelConfirmation("days", 1)
    \/ DaysSelection("days", 1)
    \/ UnknownCallback("days", 1)

SpecDays == Init /\ [][NextDays]_vars

----------------------------------------------------------------------------
(* Vocabulary of the claims: the ledger operations by kind *)

AllVoters == Users \cup {SYSTEM_USER_ID}

\* Every id a ledger or a candidate list of the model can hold
AllItemIds == ItemIds \cup {Pad3(i) : i \in 1..MaxCand}

Candidates(s, kind) == IF kind = "activity" THEN s.activities ELSE s.eateries

Votes(s, kind) ==
    IF kind = "activity" THEN s.selected_activities ELSE s.selected_eateries

HasVoted(s, kind, item, v) ==
    IF kind = "activity" THEN has_activity_vote(s, item, v)
    ELSE has_eatery_vote(s, item, v)

VoteCount(s, kind, item) ==
    IF kind = "activity" THEN get_activity_vote_count(s, item)
    ELSE get_eatery_vote_count(s, item)

Ranked(s, kind) ==
    IF kind = "activity" THEN get_activities_by_votes(s)
    ELSE get_eateries_by_votes(s)

\* The place of an id in a candidate list, 0 when it is not in it
PlaceOf(items, id) ==
    IF \E i \in DOMAIN items : items[i].id = id
    THEN CHOOSE i \in DOMAIN items : items[i].id = id
    ELSE 0

----------------------------------------------------------------------------
(* Claims about the vote ledger, under SpecLedger *)

\* C3: has_voted(kind, item, v) is true exactly when the last operation
\* applied to (kind, item, v) was add_vote, whatever was done in between for
\* other voters and other items.
C3_LastWriteWins ==
    \A x \in LedgerKeys :
        HasVoted(sessions[1], x[1], x[2], x[3]) <=> (lastOp[x] = "add")

\* C3 witness: voter 1 deselected item 002 after both voters had selected it,
\* and voter 2's vote is still recorded.
C3_Witness ==
    /\ last.op = "remove_vote" /\ last.had
    /\ lastOp[<<"activity", "002", 1>>] = "remove"
    /\ lastOp[<<"activity", "002", 2>>] = "add"
    /\ HasVoted(sessions[1], "activity", "002", 2)

\* C4: vote_count(kind, item) is the number of distinct voters recorded for the
\* item: 0 for an item with no entry, never negative, and a voter who selects
\* twice is counted once.
C4_VoteCountIsVoters ==
    \A kind \in Kinds, item \in AllItemIds :
        /\ VoteCount(sessions[1], kind, item) =
              Cardinality({v \in AllVoters : HasVoted(sessions[1], kind, item, v)})
        /\ VoteCount(sessions[1], kind, item) >= 0
        /\ item \notin DictKeys(Votes(sessions[1], kind))
              => VoteCount(sessions[1], kind, item) = 0

\* C4 witness: a voter selected an item it had already selected, and the item
\* counts the two voters it has.
C4_Witness ==
    /\ last.op = "add_vote" /\ last.had
    /\ VoteCount(sessions[1], "food", "001") = 2
    /\ Len(sessions[1].selected_eateries) = 1
    /\ sessions[1].selected_activities = <<>>

\* C5: every id that is a key of a ledger maps to a non-empty set of voters.
C5_NoEmptyEntries ==
    \A kind \in Kinds :
        \A i \in DOMAIN Votes(sessions[1], kind) :
            Votes(sessions[1], kind)[i].v # {}

\* C5 witness: a remove_vote took the only vote of an item, and no key is left.
C5_Witness ==
    /\ last.op = "remove_vote" /\ last.had
    /\ nOps = 2
    /\ sessions[1].selected_activities = <<>>
    /\ sessions[1].selected_eateries = <<>>

\* C7: ranked(kind) holds exactly the ids that have at least one voter, each
\* once and with its vote_count, and the counts do not increase along it.
C7_RankedExactAndSorted ==
    \A kind \in Kinds :
        LET r == Ranked(sessions[1], kind)
        IN /\ {r[i][1] : i \in DOMAIN r} =
                 {item \in AllItemIds :
                    \E v \in AllVoters : HasVoted(sessions[1], kind, item, v)}
           /\ \A i, j \in DOMAIN r : r[i][1] = r[j][1] => i = j
           /\ \A i \in DOMAIN r : r[i][2] = VoteCount(sessions[1], kind, r[i][1])
           /\ \A i, j \in DOMAIN r : i < j => r[i][2] >= r[j][2]

\* C7 witness: the item voted for second has more votes than the one voted for
\* first and is ranked before it.
C7_Witness ==
    /\ Votes(sessions[1], "activity") = <<[k |-> "001", v |-> {1}],
                                           [k |-> "002", v |-> {1, 2}]>>
    /\ Ranked(sessions[1], "activity") = <<(<<"002", 2>>), (<<"001", 1>>)>>

\* C8: two candidates with equal vote_count appear in ranked(kind) in the
\* candidates' presentation order, whatever the order the votes were cast in.
C8_TiesInPresentationOrder ==
    \A kind \in Kinds :
        LET r == Ranked(sessions[1], kind)
            items == Candidates(sessions[1], kind)
        IN \A i, j \in DOMAIN r :
              /\ r[i][2] = r[j][2]
              /\ PlaceOf(items, r[i][1]) > 0
              /\ PlaceOf(items, r[j][1]) > 0
              /\ PlaceOf(items, r[i][1]) < PlaceOf(items, r[j][1])
              => i < j

\* C9: apply_default_selection(kind) on a session that already holds a vote of
\* that kind leaves the session unchanged and returns count 0 and no names.
C9_DefaultsNoOpWhenVoted ==
    (last.op = "apply_default" /\ Votes(last.pre, last.kind) # <<>>)
        => /\ sessions[1] = last.pre
           /\ last.ret = <<0, <<>>>>

\* C9 witness: the policy was applied to a ledger holding a real voter's vote.
C9_Witness ==
    /\ last.op = "apply_default"
    /\ \E item \in ItemIds : HasVoted(last.pre, last.kind, item, 1)
    /\ Len(Candidates(last.pre, last.kind)) >= 1

\* C10: apply_default_selection(kind) with no vote of that kind records a vote
\* of the system voter on exactly the first K candidates, K = min(default count,
\* number of candidates), adds no other vote, and returns K and their names in
\* presentation order.
C10_DefaultsFirstK ==
    (last.op = "apply_default" /\ Votes(last.pre, last.kind) = <<>>)
        => LET items == Candidates(last.pre, last.kind)
               K == IF Len(items) < DEFAULT_SELECTION_COUNT
                    THEN Len(items) ELSE DEFAULT_SELECTION_COUNT
               s == sessions[1]
           IN /\ \A item \in AllItemIds, v \in AllVoters :
                    HasVoted(s, last.kind, item, v) <=>
                       /\ v = SYSTEM_USER_ID
                       /\ \E i \in 1..K : items[i].id = item
              /\ DictKeys(Votes(s, last.kind)) \subseteq AllItemIds
              /\ \A kind \in Kinds \ {last.kind} : Votes(s, kind) = Votes(last.pre, kind)
              /\ Candidates(s, "activity") = Candidates(last.pre, "activity")
              /\ Candidates(s, "food") = Candidates(last.pre, "food")
              /\ last.ret[1] = K
              /\ last.ret[2] = [i \in 1..K |-> items[i].name]

\* C10 witness: the policy was applied to an empty ledger with more candidates
\* than the default count, and picked the default count of them.
C10_Witness ==
    /\ last.op = "apply_default"
    /\ Votes(last.pre, last.kind) = <<>>
    /\ Len(Candidates(last.pre, last.kind)) > DEFAULT_SELECTION_COUNT
    /\ last.ret[1] = DEFAULT_SELECTION_COUNT

----------------------------------------------------------------------------
(* Claims about the steps of the flow, under SpecFlow *)

\* The step an event's handler requires, "none" for a payload no handler takes
StepRequiredBy(op, data) ==
    IF op = "text" THEN WAITING_FOR_HOTEL
    ELSE IF data[1] = "htl" THEN CONFIRMING_HOTEL
    ELSE IF data[1] = "days" THEN SELECTING_DAYS
    ELSE IF data[1] = "itin" THEN REVIEWING_ITINERARY
    ELSE IF data[1] \in {"sel", "des", "done"} /\ Len(data) >= 2
    THEN IF data[2] = "act" THEN SELECTING_ACTIVITIES
         ELSE IF data[2] = "fod" THEN SELECTING_FOOD ELSE "none"
    ELSE "none"

ListedEdges ==
    {<<WAITING_FOR_HOTEL, CONFIRMING_HOTEL>>,
     <<CONFIRMING_HOTEL, SELECTING_DAYS>>,
     <<CONFIRMING_HOTEL, WAITING_FOR_HOTEL>>,
     <<SELECTING_DAYS, SELECTING_ACTIVITIES>>,
     <<SELECTING_ACTIVITIES, SELECTING_FOOD>>,
     <<SELECTING_FOOD, GENERATING>>,
     <<GENERATING, REVIEWING_ITINERARY>>,
     <<GENERATING, SELECTING_FOOD>>,
     <<REVIEWING_ITINERARY, GENERATING>>,
     <<REVIEWING_ITINERARY, IDLE>>}

----------------------------------------------------------------------------
(* Claims about closing a round and generating, under SpecFlow *)

\* The kind of the round a done tap closes, and the step it is accepted in
DoneKind(data) == IF data = <<"done", "act">> THEN "activity" ELSE "food"

\* A done tap that closed its round: the handler went on to the next step
DoneAccepted ==
    /\ last.op = "callback"
    /\ last.data \in {<<"done", "act">>, <<"done", "fod">>}
    /\ last.from = ExpectedState(DoneKind(last.data))
    /\ last.trail # <<>>

\* The first K of a candidate list, K = min(default count, number of candidates)
FirstK(items) == SubSeq(items, 1, Min(DEFAULT_SELECTION_COUNT, Len(items)))

----------------------------------------------------------------------------
(* Claims about the prioritized selection, under SpecLedger *)

\* C12: prioritized_selection(kind) is ranked(kind) restricted to the ids of
\* the candidate list, in the same order, each id replaced by its candidate
\* record; every record returned is in the candidate list and none is returned
\* twice.
C12_PrioritizedIsRankedKnown ==
    \A kind \in Kinds :
        LET s == sessions[1]
            items == Candidates(s, kind)
            known == SelectSeq(Ranked(s, kind),
                               LAMBDA x : \E i \in DOMAIN items : items[i].id = x[1])
            picked == get_prioritized_selections(s, kind)
        IN /\ Len(picked) = Len(known)
           /\ \A i \in DOMAIN picked :
                 /\ picked[i].id = known[i][1]
                 /\ \E j \in DOMAIN items : items[j] = picked[i]
           /\ \A i, j \in DOMAIN picked : picked[i] = picked[j] => i = j

\* C12 witness: three items have a vote each, cast for 002, then 003, then 001;
\* the list has only 001 and 002, and the selection is 002 then 001.
C12_Witness ==
    /\ Len(sessions[1].activities) = 2
    /\ Ranked(sessions[1], "activity") =
          <<(<<"002", 1>>), (<<"003", 1>>), (<<"001", 1>>)>>
    /\ get_prioritized_selections(sessions[1], "activity") =
          <<MkActivity(2), MkActivity(1)>>

ProviderFailures == {"TavilySearchError", "LLMError"}

----------------------------------------------------------------------------
(* Claims about the restart command and the first steps *)

\* C18: after the restart command, in whatever step and with whatever content
\* the session was, the chat's session has step WaitingForHotel, no candidates,
\* no votes, no hotel, day count 0, no itinerary and the configured trip dates.
C18_RestartResets ==
    last.op = "plan"
        => SessionOf(sessions, 1) =
              [UserSession(1) EXCEPT !.state = WAITING_FOR_HOTEL,
                                     !.start_date = START_DATE,
                                     !.end_date = END_DATE]

C20_HotelTextOutcome ==
    (last.op = "text" /\ last.from = WAITING_FOR_HOTEL /\ last.hotelAnswer # <<>>)
        => LET s == SessionOf(sessions, 1)
           IN IF last.hotelAnswer[1].kind = "json"
              THEN /\ s.state = CONFIRMING_HOTEL
                   /\ s.hotel # <<>>
                   /\ s.hotel[1].raw_input = last.data[1]
              ELSE /\ s.state = WAITING_FOR_HOTEL
                   /\ s.hotel = <<>>

----------------------------------------------------------------------------
(* Claims about the hotel and the day count *)

\* C21: when the Text Generator raises or its answer holds no JSON object,
\* parse_hotel still returns: the hotel recorded has confidence low, the
\* user's text as raw_input and a name made from the user's text alone, and no
\* parsing error leaves the handler.
C21_ParseHotelFallsBack ==
    (last.op = "text" /\ last.hotelAnswer # <<>>
        /\ last.hotelAnswer[1].kind # "json")
        => /\ last.exc \in {"", "TelegramError"}
           /\ SessionOf(sessions, 1).hotel =
                 <<[raw_input |-> last.data[1], name |-> Title(last.data[1]),
                    area |-> "Unknown", confidence |-> "low"]>>

\* C21 witness: the Text Generator raised on the hotel prompt and the session
\* holds the echo of the text.
C21_Witness ==
    /\ last.op = "text"
    /\ last.hotelAnswer = <<[kind |-> "raise"]>>
    /\ SessionOf(sessions, 1).hotel # <<>>
    /\ SessionOf(sessions, 1).hotel[1].name = "Bintan Lagoon"
    /\ SessionOf(sessions, 1).hotel[1].confidence = "low"

C24_NumDaysZeroBeforeRounds ==
    SessionOf(sessions, 1).state \in
        {WAITING_FOR_HOTEL, CONFIRMING_HOTEL, SELECTING_DAYS}
        => SessionOf(sessions, 1).num_days = 0

\* C25: the hotel is absent while the step is WaitingForHotel and present
\* while the step is ConfirmingHotel, SelectingDays, SelectingActivities,
\* SelectingFood, Generating or ReviewingItinerary.
C25_HotelPresence ==
    LET s == SessionOf(sessions, 1) IN
    /\ s.state = WAITING_FOR_HOTEL => s.hotel = <<>>
    /\ s.state \in {CONFIRMING_HOTEL, SELECTING_DAYS, SELECTING_ACTIVITIES,
                    SELECTING_FOOD, GENERATING, REVIEWING_ITINERARY}
           => s.hotel # <<>>

C25_Witness ==
    /\ last.op = "callback" /\ last.data = <<"htl", "no">>
    /\ last.pre.state = CONFIRMING_HOTEL /\ last.pre.hotel # <<>>
    /\ SessionOf(sessions, 1).state = WAITING_FOR_HOTEL
    /\ SessionOf(sessions, 1).hotel = <<>>

----------------------------------------------------------------------------
(* Two chats, each up to its activity round, their events interleaved in   *)
(* every order; MaxToggles bounds the accepted toggles of both together    *)

PlanOf(c) ==
    \E fails \in FailsOn({"status", "prompt"}) :
        /\ Handled("plan", c, 1, <<"plan">>, plan(sessions, c, fails))
        /\ UNCHANGED nOps

ChatEvents(c) ==
    \/ PlanOf(c)
    \/ Text("flow", c)
    \/ HotelConfirmation("flow", c)
    \/ DaysSelection("flow", c)
    \/ Selection("flow", c)
    \/ UnknownCallback("flow", c)

NextChats ==
    \/ ChatEvents(1)
    \/ ChatEvents(2)

SpecChats == Init /\ [][NextChats]_vars

----------------------------------------------------------------------------
(* Claims about the sessions of several chats, under SpecChats *)

StoreLaws(store, c) ==
    LET got == get_session(store, c)
        cleared == clear_session(store, c)
    IN /\ c \in DOMAIN got
       /\ \A b \in DOMAIN store \ {c} : b \in DOMAIN got /\ got[b] = store[b]
       /\ c \notin DOMAIN store => got[c] = UserSession(c) /\ got[c].state = IDLE
       /\ c \in DOMAIN store => got = store
       /\ DOMAIN cleared = DOMAIN store \ {c}
       /\ \A b \in DOMAIN cleared : cleared[b] = store[b]
       /\ c \notin DOMAIN store => cleared = store

\* C27: the store holds at most one session per chat id, kept under that id;
\* get_session creates a fresh Idle session for an unknown chat and returns
\* the stored one, not reset, for a known chat; clear_session removes the
\* session of the chat and does nothing for an unknown chat; no event ends
\* with a chat's session removed (only /plan calls clear_session, and it
\* fetches a new session at once).
C27_SessionStore ==
    /\ [](/\ \A c \in DOMAIN sessions : sessions[c].chat_id = c
          /\ \A c \in Chats : StoreLaws(sessions, c)
          /\ last.op # "init" => last.chat \in DOMAIN sessions)
    /\ [][DOMAIN sessions \subseteq DOMAIN sessions']_vars

C27_Witness ==
    /\ last.op = "plan" /\ last.chat = 1
    /\ last.pre.state = SELECTING_DAYS
    /\ sessions[1].state = WAITING_FOR_HOTEL
    /\ 2 \notin DOMAIN sessions

----------------------------------------------------------------------------
(* services.py: the extraction of candidates from the Text Generator's     *)
(* answer.  The answer, stripped of its <think> block and of surrounding   *)
(* white space, is read line by line; a line is                            *)
(*   "item"   five or more fields between "|"                              *)
(*   "short"  fewer than five fields, at least one "|"                     *)
(*   "prose"  no "|"                                                       *)
(*   "blank"  nothing but white space                                      *)

\* The longest answer of the model, in lines
MaxLines == 4

\* config.py as services.py imports it; the file under src/ does not define it
MAX_RECOMMENDATIONS == 3

LineKinds == {"item", "short", "prose", "blank"}

\* content.split("\n") of a stripped answer: an empty answer is one blank
\* line; the first and the last line of any other answer are not blank
Extractions ==
    {ls \in UNION {[1..n -> LineKinds] : n \in 1..MaxLines} :
        Len(ls) > 1 => ls[1] # "blank" /\ ls[Len(ls)] # "blank"}

\* for idx, line in enumerate(content.split("\n"), start=1): ...
RECURSIVE ParseLines(_, _, _)
ParseLines(lines, idx, found) ==
    IF idx > Len(lines) THEN found
    ELSE IF lines[idx] \in {"blank", "prose"}
         THEN ParseLines(lines, idx + 1, found)               \* continue
    ELSE IF lines[idx] = "item"                               \* len(parts) >= 5
         THEN LET more == Append(found, MkActivity(idx))
              IN IF Len(more) >= MAX_RECOMMENDATIONS THEN more  \* break
                 ELSE ParseLines(lines, idx + 1, more)
    ELSE ParseLines(lines, idx + 1, found)

parse_activities_with_llm(lines) == ParseLines(lines, 1, <<>>)

parse_food_with_llm(lines) == ParseLines(lines, 1, <<>>)

\* One extraction of each kind from every answer
InitExtract ==
    /\ sessions = <<>>
    /\ \E lines \in Extractions : last = [op |-> "answer", lines |-> lines]
    /\ lastOp = [x \in LedgerKeys |-> "none"]
    /\ nOps = 0

ParseActivities ==
    /\ last.op = "answer"
    /\ last' = [op |-> "extract", kind |-> "activity", lines |-> last.lines,
                items |-> parse_activities_with_llm(last.lines)]
    /\ UNCHANGED <<sessions, lastOp, nOps>>

ParseFood ==
    /\ last.op = "answer"
    /\ last' = [op |-> "extract", kind |-> "food", lines |-> last.lines,
                items |-> parse_food_with_llm(last.lines)]
    /\ UNCHANGED <<sessions, lastOp, nOps>>

NextExtract ==
    \/ ParseActivities
    \/ ParseFood

SpecExtract == InitExtract /\ [][NextExtract]_vars

\* C28: the candidates created from an extraction have pairwise distinct ids,
\* and the ids are the zero-padded numbers 1, 2, ..., n in the order of
\* presentation, n being the number of candidates created, also when lines of
\* the answer are discarded.
C28_IdsSequential ==
    last.op = "extract"
        => /\ \A i, j \in DOMAIN last.items :
                  i # j => last.items[i].id # last.items[j].id
           /\ \A i \in DOMAIN last.items : last.items[i].id = Pad3(i)

----------------------------------------------------------------------------
(* bot.py, event_bot.py: the chunking of a long text.  A text is the       *)
(* sequence of its characters; "a" stands for every character that is not  *)
(* white space and not a hyphen.                                           *)

\* The longest text and the largest chunk size of the model
MaxText == 7
MaxWidth == 3

NL == "\n"
Chars == {"a", " ", NL}
Whitespace == {" ", NL}

Texts == UNION {[1..n -> Chars] : n \in 0..MaxText}
Widths == 0..MaxWidth

\* str.strip()
RECURSIVE LStrip(_)
LStrip(s) == IF s # <<>> /\ Head(s) \in Whitespace THEN LStrip(Tail(s)) ELSE s

RECURSIVE RStrip(_)
RStrip(s) ==
    IF s # <<>> /\ s[Len(s)] \in Whitespace
    THEN RStrip(SubSeq(s, 1, Len(s) - 1))
    ELSE s

Strip(s) == RStrip(LStrip(s))

\* str.split("\n\n"): the separators are found from the left, without overlap
RECURSIVE SplitParagraphs(_, _)
SplitParagraphs(s, cur) ==
    IF s = <<>> THEN <<cur>>
    ELSE IF Len(s) >= 2 /\ s[1] = NL /\ s[2] = NL
         THEN <<cur>> \o SplitParagraphs(SubSeq(s, 3, Len(s)), <<>>)
         ELSE SplitParagraphs(Tail(s), Append(cur, Head(s)))

\* TextWrapper._split: the runs of white space and the words between them
RECURSIVE SplitWords(_, _)
SplitWords(s, cur) ==
    IF s = <<>> THEN IF cur = <<>> THEN <<>> ELSE <<cur>>
    ELSE IF cur = <<>> \/ (Head(s) \in Whitespace) = (cur[1] \in Whitespace)
         THEN SplitWords(Tail(s), Append(cur, Head(s)))
         ELSE <<cur>> \o SplitWords(s, <<>>)

\* TextWrapper._wrap_chunks, inner loop: chunks go on the line while they fit
RECURSIVE FillLine(_, _, _)
FillLine(chunks, cur_line, width) ==
    IF chunks # <<>> /\ Len(cur_line) + Len(Head(chunks)) <= width
    THEN FillLine(Tail(chunks), cur_line \o Head(chunks), width)
    ELSE [line |-> cur_line, rest |-> chunks]

\* A wrapping with break_long_words=False: a word longer than the width gets a
\* line of its own
RECURSIVE WrapChunksWhole(_, _)
WrapChunksWhole(chunks, width) ==
    IF chunks = <<>> THEN <<>>
    ELSE LET f == FillLine(chunks, <<>>, width)
         IN IF f.line = <<>>
            THEN <<Head(chunks)>> \o WrapChunksWhole(Tail(chunks), width)
            ELSE <<f.line>> \o WrapChunksWhole(f.rest, width)

\* TextWrapper._wrap_chunks with drop_whitespace=False, break_long_words=True:
\* a chunk longer than the width is cut where the line is full
\* (_handle_long_word)
RECURSIVE WrapChunks(_, _)
WrapChunks(chunks, width) ==
    IF chunks = <<>> THEN <<>>
    ELSE LET f == FillLine(chunks, <<>>, width)
             long == f.rest # <<>> /\ Len(Head(f.rest)) > width
             space_left == width - Len(f.line)
             line == IF long THEN f.line \o SubSeq(Head(f.rest), 1, space_left)
                     ELSE f.line
             rest == IF long
                     THEN <<SubSeq(Head(f.rest), space_left + 1,
                                   Len(Head(f.rest)))>> \o Tail(f.rest)
                     ELSE f.rest
         IN <<line>> \o WrapChunks(rest, width)

\* A wrap that leaves long words whole
wrap_whole_words(p, width) == WrapChunksWhole(SplitWords(p, <<>>), width)

\* textwrap.wrap(p, width=width, replace_whitespace=False,
\*               drop_whitespace=False), for width > 0
wrap(p, width) == WrapChunks(SplitWords(p, <<>>), width)

\* for p in paragraphs: ...; if current: chunks.append(current); return chunks
RECURSIVE ChunkLoop(_, _, _, _)
ChunkLoop(paragraphs, chunks, current, max_len) ==
    IF paragraphs = <<>>
    THEN [exc |-> "",
          value |-> IF current # <<>> THEN Append(chunks, current) ELSE chunks]
    ELSE LET p == Head(paragraphs)
             candidate == IF current # <<>>
                          THEN Strip(current \o <<NL, NL>> \o p)
                          ELSE p
             flushed == IF current # <<>> THEN Append(chunks, current)
                        ELSE chunks
         IN IF Len(candidate) <= max_len
            THEN ChunkLoop(Tail(paragraphs), chunks, candidate, max_len)
            ELSE IF Len(p) > max_len
                 THEN IF max_len <= 0        \* textwrap: invalid width
                      THEN [exc |-> "ValueError", value |-> <<>>]
                      ELSE LET wrapped == wrap(p, max_len)
                           IN ChunkLoop(Tail(paragraphs),
                                        flushed \o SubSeq(wrapped, 1,
                                                          Len(wrapped) - 1),
                                        IF wrapped # <<>>
                                        THEN wrapped[Len(wrapped)] ELSE <<>>,
                                        max_len)
                 ELSE ChunkLoop(Tail(paragraphs), flushed, p, max_len)

\* bot.py: _split_into_chunks
split_into_chunks(text, max_len) ==
    IF Len(text) <= max_len THEN [exc |-> "", value |-> <<text>>]
    ELSE ChunkLoop(SplitParagraphs(text, <<>>), <<>>, <<>>, max_len)

\* event_bot.py: split_into_chunks, the same statements
event_split_into_chunks(text, max_len) ==
    IF Len(text) <= max_len THEN [exc |-> "", value |-> <<text>>]
    ELSE ChunkLoop(SplitParagraphs(text, <<>>), <<>>, <<>>, max_len)

\* The chunking of every text with every chunk size
InitChunks ==
    /\ sessions = <<>>
    /\ \E text \in Texts, max_len \in Widths :
          last = [op |-> "text", text |-> text, max_len |-> max_len]
    /\ lastOp = [x \in LedgerKeys |-> "none"]
    /\ nOps = 0

SplitBot ==
    /\ last.op = "text"
    /\ last' = [op |-> "chunks", by |-> "bot", text |-> last.text,
                max_len |-> last.max_len,
                result |-> split_into_chunks(last.text, last.max_len)]
    /\ UNCHANGED <<sessions, lastOp, nOps>>

SplitEventBot ==
    /\ last.op = "text"
    /\ last' = [op |-> "chunks", by |-> "event_bot", text |-> last.text,
                max_len |-> last.max_len,
                result |-> event_split_into_chunks(last.text, last.max_len)]
    /\ UNCHANGED <<sessions, lastOp, nOps>>

NextChunks ==
    \/ SplitBot
    \/ SplitEventBot

SpecChunks == InitChunks /\ [][NextChunks]_vars

\* C29: for every text and every maximum chunk size, no chunk that the
\* chunking returns is longer than the maximum (bot.py and event_bot.py).
C29_ChunksWithinMax ==
    last.op = "chunks"
        => \A i \in DOMAIN last.result.value :
              Len(last.result.value[i]) <= last.max_len

\* A paragraph longer than the maximum, after a paragraph break, cut in lines
C29_Witness ==
    /\ last.op = "chunks" /\ last.by = "bot"
    /\ last.text = <<"a", NL, NL, "a", "a", "a", "a">>
    /\ last.max_len = 3
    /\ last.result.value = <<<<"a">>, <<"a", "a", "a">>, <<"a">>>>

\* Every text that joining the chunks can give, with or without a paragraph
\* separator at each boundary between two chunks
RECURSIVE Joins(_)
Joins(chunks) ==
    IF chunks = <<>> THEN {<<>>}
    ELSE IF Len(chunks) = 1 THEN {chunks[1]}
    ELSE {chunks[1] \o sep \o rest :
            sep \in {<<>>, <<NL, NL>>}, rest \in Joins(Tail(chunks))}

\* C30: for every text, joining the chunks returned by the chunking, the
\* paragraph separator put back between the chunks that were split at a
\* paragraph boundary, gives the text back exactly (for a maximum of one
\* character or more).
C30_ChunksRejoin ==
    (last.op = "chunks" /\ last.by = "bot" /\ last.max_len > 0)
        => last.text \in Joins(last.result.value)

----------------------------------------------------------------------------
(* bot.py: the sending of an itinerary.  A message is its text and whether *)
(* it carries the regenerate/accept keyboard.  The two lengths the code    *)
(* compares with, TELEGRAM_MAX_LEN - 100 and CHUNK_LEN, are inputs here:   *)
(* chunk_len is at most limit, as 3500 is at most 3996.                    *)

\* generate_itinerary returns a stripped text
ItineraryTexts == {t \in Texts : Strip(t) = t}

\* The reply_text calls _send_itinerary makes when no call raises, in order;
\* exc is the exception that ends it after these calls, if any
Replies(itinerary, limit, chunk_len) ==
    IF Len(itinerary) <= limit
    THEN [exc |-> "", msgs |-> <<[text |-> itinerary, keyboard |-> TRUE]>>]
    ELSE LET res == split_into_chunks(itinerary, chunk_len)
             chunks == res.value
         IN IF res.exc # "" THEN [exc |-> res.exc, msgs |-> <<>>]
            ELSE IF chunks = <<>>                    \* chunks[-1]
                 THEN [exc |-> "IndexError", msgs |-> <<>>]
            ELSE [exc |-> "",
                  msgs |-> [i \in 1..Len(chunks) |->
                              [text |-> chunks[i],
                               keyboard |-> i = Len(chunks)]]]

\* A sending that puts the keyboard under every message
send_itinerary_keyboard_everywhere(itinerary, limit, chunk_len, failAt) ==
    LET plan_ == Replies(itinerary, limit, chunk_len)
    IN [exc |-> plan_.exc,
        sent |-> [i \in DOMAIN plan_.msgs |->
                    [plan_.msgs[i] EXCEPT !.keyboard = TRUE]]]

\* _send_itinerary when reply_text number failAt raises (0: none raises)
send_itinerary(itinerary, limit, chunk_len, failAt) ==
    LET plan_ == Replies(itinerary, limit, chunk_len)
    IN IF failAt \in 1..Len(plan_.msgs)
       THEN [exc |-> "TelegramError",
             sent |-> SubSeq(plan_.msgs, 1, failAt - 1)]
       ELSE [exc |-> plan_.exc, sent |-> plan_.msgs]

InitSend ==
    /\ sessions = <<>>
    /\ \E text \in ItineraryTexts, chunk_len \in Widths \ {0}, slack \in {0, 1} :
          last = [op |-> "itinerary", text |-> text, chunk_len |-> chunk_len,
                  limit |-> chunk_len + slack]
    /\ lastOp = [x \in LedgerKeys |-> "none"]
    /\ nOps = 0

SendItinerary ==
    /\ last.op = "itinerary"
    /\ \E failAt \in 0..MaxText :
          LET out == send_itinerary(last.text, last.limit, last.chunk_len, failAt)
          IN last' = [op |-> "sent", text |-> last.text,
                      chunk_len |-> last.chunk_len, limit |-> last.limit,
                      chunks |-> split_into_chunks(last.text, last.chunk_len).value,
                      exc |-> out.exc, sent |-> out.sent]
    /\ UNCHANGED <<sessions, lastOp, nOps>>

NextSend == SendItinerary

SpecSend == InitSend /\ [][NextSend]_vars

\* C31: an itinerary sent as N messages is sent in chunk order, the first
\* N-1 messages carry no controls and exactly one message, the last one sent,
\* carries the regenerate/accept controls; an itinerary sent as one message
\* carries the controls.  While a sending is cut short by the transport, no
\* message sent so far carries controls.
C31_ControlsOnLastMessage ==
    last.op = "sent"
        => LET N == Len(last.sent)
           IN IF last.exc = ""
              THEN /\ N >= 1
                   /\ \A i \in 1..N : last.sent[i].keyboard = (i = N)
                   /\ N = 1 /\ Len(last.text) <= last.limit
                         => last.sent[1].text = last.text
                   /\ Len(last.text) > last.limit
                         => [i \in 1..N |-> last.sent[i].text] = last.chunks
              ELSE \A i \in 1..N : ~last.sent[i].keyboard

C31_Witness ==
    /\ last.op = "sent" /\ last.exc = ""
    /\ Len(last.sent) = 3
    /\ ~last.sent[1].keyboard /\ ~last.sent[2].keyboard /\ last.sent[3].keyboard
    /\ last.text = <<"a", "a", NL, NL, "a", "a", "a">>

----------------------------------------------------------------------------
(* Claims about the transport, the ledgers and the rounds, under SpecFlow *)

\* The session after the toggle of an event is applied to the session before it
Toggled(s, data, user) ==
    IF data[1] = "sel"
    THEN IF data[2] = "act" THEN add_activity_vote(s, data[3], user)
         ELSE add_eatery_vote(s, data[3], user)
    ELSE IF data[2] = "act" THEN remove_activity_vote(s, data[3], user)
         ELSE remove_eatery_vote(s, data[3], user)

\* The event handled last is a toggle that was accepted
ToggleAccepted ==
    /\ last.op = "callback"
    /\ last.data[1] \in {"sel", "des"}
    /\ last.from = ExpectedState(IF last.data[2] = "act" THEN "activity"
                                 ELSE "food")

----------------------------------------------------------------------------
(* keyboards.py, bot.py: the shared voting message.  Its buttons carry the *)
(* payloads the keyboard was built with for the voter it was rendered for; *)
(* a tap delivers the payload of the button tapped.                        *)

\* The taps explored on one voting message
MaxTaps == 3

\* build_activity_keyboard: the callback data of the item buttons, in order
build_activity_keyboard(activities, session, current_user_id) ==
    [i \in DOMAIN activities |->
        <<IF has_activity_vote(session, activities[i].id, current_user_id)
          THEN "des" ELSE "sel",
          "act", activities[i].id>>]

\* The store once /plan, the hotel text, htl_yes and days_3 have been handled
\* and the search has found two activities
Planned == plan(<<>>, 1, {}).store

HotelGiven ==
    handle_text(Planned, 1, "bintan lagoon",
                CHOOSE a \in HotelAnswersOf("flow") : TRUE, {}).store

HotelConfirmed ==
    handle_callback(HotelGiven, 1, 1, <<"htl", "yes">>, "flow", NoProvider,
                    "error", {}).store

RoundOpened ==
    handle_callback(HotelConfirmed, 1, 1, <<"days", "3">>, "flow",
                    [exc |-> "", value |-> MkList(2)], "error", {}).store

\* _start_activity_selection renders the message for user id 0
InitTaps ==
    /\ sessions = RoundOpened
    /\ last = [op |-> "render", reviewed |-> <<>>,
               keyboard |-> build_activity_keyboard(RoundOpened[1].activities,
                                                    RoundOpened[1], 0)]
    /\ lastOp = [x \in LedgerKeys |-> "none"]
    /\ nOps = 0

\* A voter taps a button of the message; the message is rendered again for
\* that voter when the answer and the edit go through
Tap ==
    /\ nOps < MaxTaps
    /\ \E user \in Users, b \in DOMAIN last.keyboard,
          fails \in FailsOn({"answer", "edit"}) :
          LET data == last.keyboard[b]
              h == handle_callback(sessions, 1, user, data, "flow", NoProvider,
                                   "error", fails)
              after == SessionOf(h.store, 1)
          IN /\ sessions' = h.store
             /\ last' = [op |-> "tap", reviewed |-> <<>>, user |-> user,
                         data |-> data, pre |-> SessionOf(sessions, 1),
                         failed |-> h.r.failed,
                         keyboard |->
                            IF h.r.failed = {}
                            THEN build_activity_keyboard(after.activities,
                                                         after, user)
                            ELSE last.keyboard]
    /\ nOps' = nOps + 1
    /\ UNCHANGED lastOp

NextTaps == Tap

SpecTaps == InitTaps /\ [][NextTaps]_vars

----------------------------------------------------------------------------
(* bot.py: two toggle handlers of one chat in flight at once.  A coroutine *)
(* runs from one await to the next without interruption; `session` is a   *)
(* reference to the object in the store, so what a handler writes is seen  *)
(* by the other at once.  pc is the await a handler stands before; overlap *)
(* tells that a handler started while the other stood before an await.     *)

Handlers == {1, 2}

\* The toggles the two voters can send in the activity round
TogglePayloads == {<<a, "act", id>> : a \in {"sel", "des"}, id \in {"001", "002"}}

\* The ledgers the round can have when the two taps arrive
RoundLedgers ==
    {RoundOpened[1],
     add_activity_vote(RoundOpened[1], "001", 1),
     add_activity_vote(RoundOpened[1], "001", 2),
     add_activity_vote(add_activity_vote(RoundOpened[1], "001", 1), "001", 2)}

\* A save that writes back the session as the handler left it, not the object
save_private_copy(store, mine) == save_session(store, mine)

\* save_session(session): session is the object the store already holds
save_by_reference(store, mine) == save_session(store, store[mine.chat_id])

InitRace ==
    /\ \E s \in RoundLedgers : sessions = [c \in {1} |-> s]
    /\ \E d1, d2 \in TogglePayloads :
          last = [op |-> "race", reviewed |-> <<>>,
                  start |-> sessions[1],
                  ev |-> <<[user |-> 1, data |-> d1], [user |-> 2, data |-> d2]>>,
                  pc |-> <<"start", "start">>,
                  mine |-> <<sessions[1], sessions[1]>>,
                  overlap |-> FALSE]
    /\ lastOp = [x \in LedgerKeys |-> "none"]
    /\ nOps = 0

\* handle_callback up to the first await of _handle_selection: get_session,
\* the step test, the vote
Begin(i) ==
    /\ last.op = "race" /\ last.pc[i] = "start"
    /\ LET r == handle_selection(Res(SessionOf(sessions, 1)), last.ev[i].data,
                                 "activity", last.ev[i].user, {})
       IN /\ sessions' = [sessions EXCEPT ![1] = r.s]
          /\ last' = [last EXCEPT !.pc[i] = "answer", !.mine[i] = r.s,
                                  !.overlap = @ \/ last.pc[3 - i] \in
                                                      {"answer", "edit"}]
    /\ UNCHANGED <<lastOp, nOps>>

\* await query.answer(...) returns, or raises into handle_callback's handler,
\* which skips save_session
Answer(i) ==
    /\ last.op = "race" /\ last.pc[i] = "answer"
    /\ \E ok \in BOOLEAN :
          last' = [last EXCEPT !.pc[i] = IF ok THEN "edit" ELSE "done"]
    /\ UNCHANGED <<sessions, lastOp, nOps>>

\* await query.edit_message_text(...) returns or raises (caught); then
\* save_session(session)
Edit(i) ==
    /\ last.op = "race" /\ last.pc[i] = "edit"
    /\ sessions' = save_by_reference(sessions, last.mine[i])
    /\ last' = [last EXCEPT !.pc[i] = "done"]
    /\ UNCHANGED <<lastOp, nOps>>

NextRace ==
    \/ \E i \in Handlers : Begin(i)
    \/ \E i \in Handlers : Answer(i)
    \/ \E i \in Handlers : Edit(i)

SpecRace == InitRace /\ [][NextRace]_vars

----------------------------------------------------------------------------
(* The flow when nothing fails: one restart, every call of the Messaging   *)
(* Transport, the Search Provider and the Text Generator succeeds, every   *)
(* search that is made finds a candidate, and every prompt is answered in  *)
(* the end with the event it asks for (other events may come in between)   *)

\* No call made while the last event was handled has failed
CallsSucceeded ==
    /\ last.failed = {}
    /\ last.search \notin {"TavilySearchError", "LLMError", "empty"}
    /\ last.gen # "LLMError"
    /\ last.hotelAnswer # <<>> => last.hotelAnswer[1].kind # "raise"

\* The last event is the one the prompt of the step it found asks for
AskedFor ==
    /\ last.op \in {"text", "callback"}
    /\ last.from = StepRequiredBy(last.op, last.data)
    /\ \/ last.op = "text"
       \/ last.data = <<"htl", "yes">>
       \/ last.data[1] = "days" /\ IsInt(last.data[2]) /\ IntOf(last.data[2]) \in 1..5
       \/ last.data = <<"done", "act">>
       \/ last.data = <<"done", "fod">>

NextLiveOf(build) ==
    \/ last.op = "init" /\ Plan(1) /\ CallsSucceeded'
    \/ last.op # "init" /\ Text(build, 1) /\ CallsSucceeded'
    \/ last.op # "init" /\ HotelConfirmation(build, 1) /\ CallsSucceeded'
    \/ last.op # "init" /\ DaysSelection(build, 1) /\ CallsSucceeded'
    \/ last.op # "init" /\ Selection(build, 1) /\ CallsSucceeded'
    \/ last.op # "init" /\ DoneActivities(build, 1) /\ CallsSucceeded'
    \/ last.op # "init" /\ DoneFood(build, 1) /\ CallsSucceeded'
    \/ last.op # "init" /\ ItineraryAction(build, 1) /\ CallsSucceeded'
    \/ last.op # "init" /\ UnknownCallback(build, 1) /\ CallsSucceeded'

\* The steps in which the prompt of a step is still to be answered: the step
\* itself, and for the confirmation the step htl_no goes back to
StillToAnswer(step) ==
    IF step = CONFIRMING_HOTEL THEN {WAITING_FOR_HOTEL, CONFIRMING_HOTEL}
    ELSE {step}

\* Every prompt is answered in the end with the event it asks for: the
\* session does not stay for ever where the prompt of a step is still to be
\* answered without the event it asks for being handled from that step
PromptsAnswered ==
    \A step \in {WAITING_FOR_HOTEL, CONFIRMING_HOTEL, SELECTING_DAYS,
                 SELECTING_ACTIVITIES, SELECTING_FOOD} :
        []<>(\/ SessionOf(sessions, 1).state \notin StillToAnswer(step)
             \/ AskedFor /\ last.from = step)

NextLive == NextLiveOf("src")

\* The bot as the sources have it
SpecLive == Init /\ [][NextLive]_vars /\ WF_vars(NextLive)

NextLiveFlow == NextLiveOf("flow")

\* The bot with search functions of the signature the handlers call
SpecLiveFlow == Init /\ [][NextLiveFlow]_vars /\ WF_vars(NextLiveFlow)

\* C40: a session that has received the restart command reaches
\* ReviewingItinerary in the end, when no further restart arrives, every
\* prompt is answered in the end with the event it asks for, and every call
\* succeeds with at least one candidate per search.
C40_RestartReachesReview ==
    PromptsAnswered
        => ((last.op = "plan")
               ~> (SessionOf(sessions, 1).state = REVIEWING_ITINERARY))

============================================================================
